---- MODULE Spec2Model ----
(***************************************************************************)
(* The download controller of tulva (src/peer.go): the Controller's state, *)
(* its rarest-first piece selection and the five cases of the select loop  *)
(* of Controller.Run.                                                      *)
(***************************************************************************)
EXTENDS Integers, Sequences, FiniteSets, TLC

\* ---------------------------------------------------------------- bounds
MaxCommands == 3    \* SpecCommands follows the controller up to this many commands
NumPieces == 2      \* len(finishedPieces) of the controllers of Spec
MaxPeers == 2       \* how many distinct peer names the events of Spec use
MaxLeak == 1        \* DeadPeer is not explored past this over-count of the totals

\* ------------------------------------------------------ program constants
DefaultMaxSimultaneousDownloads == 5

AllNames == <<"1.1.1.1:6881", "2.2.2.2:6881", "3.3.3.3:6881", "4.4.4.4:6881">>
PeerNames == {AllNames[k] : k \in 1..MaxPeers}
Caps == {1, DefaultMaxSimultaneousDownloads}

\* The Controller's fields, then what an observer of the loop records:
\*   status     "running", or how the process ended ("fatal": log.Fatalf,
\*              "panic": nil dereference)
\*   lastEvent  the event the last iteration received
\*   sent       the commands the last iteration created
\*   scenario   how far the events so far follow Scenario 1 of the
\*              specification, and the requests created since construction
\*   senders    for the CancelPiece and HAVE goroutines the last iteration
\*              started: the peer whose channel each one sends on
\* Then the parts of the program the specifications of single claims follow
\* step by step; the other specifications leave them as constructed:
\*   innerChan  the inner channel the havePiece case is ranging over
\*   bitfields  the goroutines of sendBitfieldOverChannel, one per new peer
\*   commands   the commands handed to sender goroutines and the order in
\*              which each peer received them
\*   pm         the PeerManager, its registry and the sessions' goroutines
VARIABLES finishedPieces, activeRequestsTotals, peers,
          maxSimultaneousDownloadsPerPeer, status, lastEvent, sent, scenario,
          senders, innerChan, bitfields, commands, pm

vars == <<finishedPieces, activeRequestsTotals, peers,
          maxSimultaneousDownloadsPerPeer, status, lastEvent, sent, scenario,
          senders, innerChan, bitfields, commands, pm>>

\* The piece indices of this controller: the indices of finishedPieces.
Pieces == DOMAIN finishedPieces

\* ------------------------------------------------------------ PeerInfo
NewPeerInfo(quantityOfPieces) ==
    [isChoked |-> TRUE,
     availablePieces |-> [i \in 0..(quantityOfPieces - 1) |-> FALSE],
     activeRequests |-> {}]

\* ------------------------------------------------------------ RarityMap
put(data, rarity, pieceNum) ==
    IF rarity \in DOMAIN data
      THEN [data EXCEPT ![rarity] = Append(@, pieceNum)]
      ELSE data @@ (rarity :> <<pieceNum>>)

Min(S) == CHOOSE x \in S : \A y \in S : x <= y

Max(S) == CHOOSE x \in S : \A y \in S : x >= y

RECURSIVE concatByKeyDescending(_, _)
concatByKeyDescending(data, keys) ==
    IF keys = {} THEN <<>>
    ELSE LET rarity == Max(keys)
         IN data[rarity] \o concatByKeyDescending(data, keys \ {rarity})

RECURSIVE concatByKey(_, _)
concatByKey(data, keys) ==
    IF keys = {} THEN <<>>
    ELSE LET rarity == Min(keys)
         IN data[rarity] \o concatByKey(data, keys \ {rarity})

getPiecesByRarity(data) == concatByKey(data, DOMAIN data)

\* ------------------------------------------------- rarest-first selection
createPeerPieceTotalsAll(ps, fin) ==
    [i \in DOMAIN fin |->
        Cardinality({p \in DOMAIN ps : ps[p].availablePieces[i]})]

createPeerPieceTotals(ps, fin) ==
    [i \in DOMAIN fin |->
        Cardinality({p \in DOMAIN ps :
                        ~ps[p].isChoked /\ ps[p].availablePieces[i]})]

RECURSIVE putUnfinished(_, _, _, _)
putUnfinished(data, pieceNum, peerPieceTotals, fin) ==
    IF pieceNum \notin DOMAIN fin THEN data
    ELSE IF fin[pieceNum]
      THEN putUnfinished(data, pieceNum + 1, peerPieceTotals, fin)
      ELSE putUnfinished(put(data, peerPieceTotals[pieceNum], pieceNum),
                         pieceNum + 1, peerPieceTotals, fin)

createRaritySlice(ps, fin) ==
    getPiecesByRarity(putUnfinished(<<>>, 0, createPeerPieceTotals(ps, fin), fin))

updateQuantityNeededForPeer(peerInfo, fin) ==
    Cardinality({i \in DOMAIN fin : ~fin[i] /\ peerInfo.availablePieces[i]})

\* PiecePrioritySlice.Less
LessByRarityOnly(a, b) == a.rarityIndex <= b.rarityIndex

Less(a, b) ==
    IF a.activeRequestsTotal # b.activeRequestsTotal
      THEN a.activeRequestsTotal <= b.activeRequestsTotal
      ELSE a.rarityIndex <= b.rarityIndex

\* SortedPeers.Less, on the qtyPiecesNeeded the caller has just refreshed
LessPeers(a, b) == a.qtyPiecesNeeded <= b.qtyPiecesNeeded

Swap(s, i, j) == [s EXCEPT ![i] = s[j], ![j] = s[i]]

\* sort.Sort on the short slices of this model: an insertion sort that
\* moves element i down while Less(j, j-1).
RECURSIVE sinkPriority(_, _)
sinkPriority(s, j) ==
    IF j > 1 /\ Less(s[j], s[j - 1])
      THEN sinkPriority(Swap(s, j, j - 1), j - 1)
      ELSE s

RECURSIVE sortPriority(_, _)
sortPriority(s, i) ==
    IF i > Len(s) THEN s ELSE sortPriority(sinkPriority(s, i), i + 1)

RECURSIVE sinkPeers(_, _)
sinkPeers(s, j) ==
    IF j > 1 /\ LessPeers(s[j], s[j - 1])
      THEN sinkPeers(Swap(s, j, j - 1), j - 1)
      ELSE s

RECURSIVE sortPeers(_, _)
sortPeers(s, i) ==
    IF i > Len(s) THEN s ELSE sortPeers(sinkPeers(s, i), i + 1)

toSortedPieceSlice(pps) ==
    LET sorted == sortPriority(pps, 2)
    IN [k \in 1..Len(sorted) |-> sorted[k].pieceNum]

RECURSIVE buildPriorityNoDedup(_, _, _, _)
buildPriorityNoDedup(peerInfo, raritySlice, totals, k) ==
    IF k > Len(raritySlice) THEN <<>>
    ELSE LET pieceNum == raritySlice[k]
             rest == buildPriorityNoDedup(peerInfo, raritySlice, totals, k + 1)
         IN IF peerInfo.availablePieces[pieceNum]
              THEN <<[pieceNum |-> pieceNum,
                      activeRequestsTotal |-> totals[pieceNum],
                      rarityIndex |-> k - 1]>> \o rest
              ELSE rest

RECURSIVE buildPriority(_, _, _, _)
buildPriority(peerInfo, raritySlice, totals, k) ==
    IF k > Len(raritySlice) THEN <<>>
    ELSE LET pieceNum == raritySlice[k]
             rest == buildPriority(peerInfo, raritySlice, totals, k + 1)
         IN IF peerInfo.availablePieces[pieceNum]
               /\ pieceNum \notin peerInfo.activeRequests
              THEN <<[pieceNum |-> pieceNum,
                      activeRequestsTotal |-> totals[pieceNum],
                      rarityIndex |-> k - 1]>> \o rest
              ELSE rest

createDownloadPriorityForPeer(peerInfo, raritySlice, totals) ==
    toSortedPieceSlice(buildPriority(peerInfo, raritySlice, totals, 1))

\* ------------------------------------------------------ commands issued
\* What one iteration of the loop hands to sender goroutines: the
\* RequestPiece commands in the order they are created, the peers a
\* CancelPiece is created for and the peers a HAVE is created for.
Sent(requests, cancels, haves) ==
    [requests |-> requests, cancels |-> cancels, haves |-> haves]

NoSent == Sent(<<>>, {}, {})

RequestPiece(peerName, pieceNum) == [peerName |-> peerName, pieceNum |-> pieceNum]

\* The loop of sendRequestsToPeer over downloadPriority, from position k.
\* c is [peers, totals, requests].
RECURSIVE requestLoopNoCap(_, _, _, _, _)
requestLoopNoCap(c, peerName, downloadPriority, k, cap) ==
    IF k > Len(downloadPriority) THEN c
    ELSE LET pieceNum == downloadPriority[k]
         IN requestLoopNoCap(
              [peers |-> [c.peers EXCEPT ![peerName].activeRequests = @ \cup {pieceNum}],
               totals |-> [c.totals EXCEPT ![pieceNum] = @ + 1],
               requests |-> Append(c.requests, RequestPiece(peerName, pieceNum))],
              peerName, downloadPriority, k + 1, cap)

RECURSIVE requestLoop(_, _, _, _, _)
requestLoop(c, peerName, downloadPriority, k, cap) ==
    IF k > Len(downloadPriority) THEN c
    ELSE IF Cardinality(c.peers[peerName].activeRequests) >= cap THEN c
    ELSE LET pieceNum == downloadPriority[k]
         IN requestLoop(
              [peers |-> [c.peers EXCEPT ![peerName].activeRequests = @ \cup {pieceNum}],
               totals |-> [c.totals EXCEPT ![pieceNum] = @ + 1],
               requests |-> Append(c.requests, RequestPiece(peerName, pieceNum))],
              peerName, downloadPriority, k + 1, cap)

sendRequestsToPeerUncounted(c, peerName, raritySlice, cap) ==
    [requestLoop(c, peerName,
                 createDownloadPriorityForPeer(c.peers[peerName], raritySlice, c.totals),
                 1, cap) EXCEPT !.totals = c.totals]

sendRequestsToPeer(c, peerName, raritySlice, cap) ==
    requestLoop(c, peerName,
                createDownloadPriorityForPeer(c.peers[peerName], raritySlice, c.totals),
                1, cap)

\* removeUnfinishedWorkForPeer: the totals after the decrements; the caller
\* empties the set.
RECURSIVE decrementEachTwice(_, _)
decrementEachTwice(totals, S) ==
    IF S = {} THEN totals
    ELSE LET pieceNum == Min(S)
         IN decrementEachTwice([totals EXCEPT ![pieceNum] = @ - 2], S \ {pieceNum})

RECURSIVE decrementEach(_, _)
decrementEach(totals, S) ==
    IF S = {} THEN totals
    ELSE LET pieceNum == Min(S)
         IN decrementEach([totals EXCEPT ![pieceNum] = @ - 1], S \ {pieceNum})

removeUnfinishedWorkForPeerKeepSet(c, peerName) ==
    [c EXCEPT !.totals = decrementEach(@, c.peers[peerName].activeRequests)]

removeUnfinishedWorkForPeer(c, peerName) ==
    [c EXCEPT !.totals = decrementEach(@, c.peers[peerName].activeRequests),
              !.peers[peerName].activeRequests = {}]

\* sendHaveToPeersWhoNeedPiece: the peers a HAVE goroutine is started for.
sendHaveToPeersWhoNeedPiece(ps, pieceNum) ==
    {p \in DOMAIN ps : ~ps[p].availablePieces[pieceNum]}

\* removePieceFromActiveRequests, for a finishing peer that is in the map.
\* Result: [peers, totals, cancels, stuck].
removePieceFromActiveRequestsNoDecrement(ps, totals, peerName, pieceNum) ==
    IF pieceNum \in ps[peerName].activeRequests
      THEN LET others == {q \in DOMAIN ps \ {peerName} :
                             pieceNum \in ps[q].activeRequests}
           IN [peers |-> [q \in DOMAIN ps |->
                           [ps[q] EXCEPT !.activeRequests = @ \ {pieceNum}]],
               totals |-> [totals EXCEPT ![pieceNum] = @ - Cardinality(others)],
               cancels |-> others,
               stuck |-> totals[pieceNum] - Cardinality(others) # 0]
      ELSE [peers |-> ps, totals |-> totals, cancels |-> {}, stuck |-> FALSE]

removePieceFromActiveRequests(ps, totals, peerName, pieceNum) ==
    IF pieceNum \in ps[peerName].activeRequests
      THEN LET others == {q \in DOMAIN ps \ {peerName} :
                             pieceNum \in ps[q].activeRequests}
               removed == 1 + Cardinality(others)
           IN [peers |-> [q \in DOMAIN ps |->
                           IF q = peerName \/ q \in others
                             THEN [ps[q] EXCEPT !.activeRequests = @ \ {pieceNum}]
                             ELSE ps[q]],
               totals |-> [totals EXCEPT ![pieceNum] = @ - removed],
               cancels |-> others,
               stuck |-> totals[pieceNum] - removed # 0]
      ELSE [peers |-> ps, totals |-> totals, cancels |-> {}, stuck |-> FALSE]

\* The orders in which a range over a map of these keys can visit them.
MapOrders(S) ==
    {o \in [1..Cardinality(S) -> S] : \A a, b \in DOMAIN o : a # b => o[a] # o[b]}

sortedPeersByQtyPiecesNeeded(ps, fin, order) ==
    LET peerInfoSlice == [k \in DOMAIN order |->
                            [peerName |-> order[k],
                             qtyPiecesNeeded |-> updateQuantityNeededForPeer(ps[order[k]], fin)]]
        sorted == sortPeers(peerInfoSlice, 2)
    IN [k \in DOMAIN sorted |-> sorted[k].peerName]

\* The loop over sortedPeers that follows a ReceivedPiece.
redispatchFirstPeerOnly(c, sortedPeers, k, raritySlice, cap) ==
    IF k > Len(sortedPeers) THEN c
    ELSE LET peerInfo == c.peers[sortedPeers[k]]
         IN IF ~peerInfo.isChoked /\ Cardinality(peerInfo.activeRequests) < cap
              THEN sendRequestsToPeer(c, sortedPeers[k], raritySlice, cap)
              ELSE c

RECURSIVE redispatch(_, _, _, _, _)
redispatch(c, sortedPeers, k, raritySlice, cap) ==
    IF k > Len(sortedPeers) THEN c
    ELSE LET peerInfo == c.peers[sortedPeers[k]]
         IN IF ~peerInfo.isChoked /\ Cardinality(peerInfo.activeRequests) < cap
              THEN redispatch(sendRequestsToPeer(c, sortedPeers[k], raritySlice, cap),
                              sortedPeers, k + 1, raritySlice, cap)
              ELSE redispatch(c, sortedPeers, k + 1, raritySlice, cap)

\* ------------------------------------------------------------- events
Event(kind, peerName, pieceNum, isChoked, records) ==
    [kind |-> kind, peerName |-> peerName, pieceNum |-> pieceNum,
     isChoked |-> isChoked, records |-> records]

NoEvent == Event("none", "", -1, FALSE, <<>>)

HavePiece(peerName, pieceNum) == [peerName |-> peerName, pieceNum |-> pieceNum]

\* What sendBitfieldOverChannel streams for a bitfield: one record per
\* true entry, in ascending piece order.
RECURSIVE bitfieldRecords(_, _)
bitfieldRecords(peerName, S) ==
    IF S = {} THEN <<>>
    ELSE <<HavePiece(peerName, Min(S))>> \o bitfieldRecords(peerName, S \ {Min(S)})

\* Over-count of a total: what it holds beyond the peers working on the piece.
Holders(ps, pieceNum) == {p \in DOMAIN ps : pieceNum \in ps[p].activeRequests}
Leak(ps, totals, pieceNum) == totals[pieceNum] - Cardinality(Holders(ps, pieceNum))

\* ------------------------------------------------------- Scenario 1
\* "P=4. NewPeer(1.1.1.1:6881). HavePieceBatch with pieces {0,1,2,3} then
\* close. ... Then ReceivedPiece for each", with the unchoke the peer has to
\* report before the controller asks it for anything.
Scenario1Peer == AllNames[1]
Scenario1Pieces == {0, 1, 2, 3}

ScenarioOff == [phase |-> "off", requests |-> <<>>]

ScenarioStart(fin, cap) ==
    IF /\ DOMAIN fin = Scenario1Pieces
       /\ \A i \in DOMAIN fin : ~fin[i]
       /\ cap = DefaultMaxSimultaneousDownloads
      THEN [phase |-> "start", requests |-> <<>>]
      ELSE ScenarioOff

\* ev is the event just processed, out what the iteration created, fin the
\* finishedPieces the event found.
ScenarioStep(sc, ev, out, fin) ==
    LET follows ==
          \/ /\ sc.phase = "start"
             /\ ev = Event("newPeer", Scenario1Peer, -1, FALSE, <<>>)
          \/ /\ sc.phase = "joined"
             /\ ev = Event("havePiece", "", -1, FALSE,
                           bitfieldRecords(Scenario1Peer, Scenario1Pieces))
          \/ /\ sc.phase = "announced"
             /\ ev = Event("chokeStatus", Scenario1Peer, -1, FALSE, <<>>)
          \/ /\ sc.phase = "unchoked"
             /\ ev.kind = "receivedPiece"
             /\ ev.peerName = Scenario1Peer
             /\ ~fin[ev.pieceNum]
        next == CASE sc.phase = "start" -> "joined"
                  [] sc.phase = "joined" -> "announced"
                  [] OTHER -> "unchoked"
    IN IF follows
         THEN [phase |-> next, requests |-> sc.requests \o out.requests]
         ELSE ScenarioOff

Observe == scenario' = ScenarioStep(scenario, lastEvent', sent', finishedPieces)

\* ------------------------------------------------- sender goroutines
\* The goroutines of removePieceFromActiveRequests and
\* sendHaveToPeersWhoNeedPiece evaluate peerInfo.chans when they run, and
\* peerInfo is the variable of the range loop that started them: a goroutine
\* started for peer q finds in it q or any peer the loop visited after q.
Followers(order, q) ==
    {order[k] : k \in {m \in DOMAIN order :
                          \E n \in DOMAIN order : order[n] = q /\ n <= m}}

Capture(order, intended) ==
    {f \in [intended -> {order[k] : k \in DOMAIN order}] :
        \A q \in intended : f[q] \in Followers(order, q)}

NoSenders == [cancel |-> <<>>, have |-> <<>>]

Captures(intended) ==
    IF intended = {} THEN {<<>>}
    ELSE UNION {Capture(order, intended) : order \in MapOrders(DOMAIN peers)}

Spawn ==
    senders' \in {[cancel |-> f, have |-> g] :
                    f \in Captures(sent'.cancels), g \in Captures(sent'.haves)}

\* How many of the goroutines in via send on the channel of peer q.
SendsOn(via, q) == Cardinality({x \in DOMAIN via : via[x] = q})

\* ------------------------------------------------------------- Init
\* Controller.Run is at its select: no inner channel is open.
NoInnerChan == [open |-> FALSE, records |-> <<>>, next |-> 1, last |-> "",
                atReceive |-> <<>>]

\* No goroutine of sendBitfieldOverChannel has been started.
NoBitfields == <<>>

\* No command has been handed to a sender goroutine.
NoCommands == [issued |-> <<>>, received |-> <<>>]

\* NewPeerManager: an empty registry, the tomb alive, Run at its select.
NewPeerManager == [peers |-> <<>>, dying |-> FALSE, run |-> "select", waiting |-> ""]

NewController(fin) ==
    /\ finishedPieces = fin
    /\ activeRequestsTotals = [i \in DOMAIN fin |-> 0]
    /\ peers = <<>>
    /\ status = "running"
    /\ lastEvent = NoEvent
    /\ sent = NoSent
    /\ senders = NoSenders
    /\ innerChan = NoInnerChan
    /\ bitfields = NoBitfields
    /\ commands = NoCommands
    /\ pm = NewPeerManager

Init ==
    /\ \E fin \in [0..(NumPieces - 1) -> BOOLEAN] : NewController(fin)
    /\ maxSimultaneousDownloadsPerPeer \in Caps
    /\ scenario = ScenarioStart(finishedPieces, maxSimultaneousDownloadsPerPeer)

\* The controller of Scenario 1: four pieces, none finished, the default cap.
InitScenario1 ==
    /\ NewController([i \in Scenario1Pieces |-> FALSE])
    /\ maxSimultaneousDownloadsPerPeer = DefaultMaxSimultaneousDownloads
    /\ scenario = ScenarioStart(finishedPieces, maxSimultaneousDownloadsPerPeer)

\* ------------------------------------------------ Controller.Run cases
receivedPiece(peerName, pieceNum) ==
    /\ status = "running"
    /\ lastEvent' = Event("receivedPiece", peerName, pieceNum, FALSE, <<>>)
    /\ finishedPieces' = [finishedPieces EXCEPT ![pieceNum] = TRUE]
    /\ UNCHANGED maxSimultaneousDownloadsPerPeer
    /\ LET haves == sendHaveToPeersWhoNeedPiece(peers, pieceNum)
       IN IF peerName \notin DOMAIN peers
            THEN \* cont.peers[piece.peerName] is nil: nil dereference
                 /\ status' = "panic"
                 /\ sent' = Sent(<<>>, {}, haves)
                 /\ UNCHANGED <<peers, activeRequestsTotals>>
            ELSE LET r == removePieceFromActiveRequests(
                              peers, activeRequestsTotals, peerName, pieceNum)
                 IN IF r.stuck
                      THEN /\ status' = "fatal"
                           /\ peers' = r.peers
                           /\ activeRequestsTotals' = r.totals
                           /\ sent' = Sent(<<>>, r.cancels, haves)
                      ELSE \E order \in MapOrders(DOMAIN peers) :
                             LET raritySlice == createRaritySlice(r.peers, finishedPieces')
                                 sortedPeers == sortedPeersByQtyPiecesNeeded(
                                                    r.peers, finishedPieces', order)
                                 c == redispatch([peers |-> r.peers, totals |-> r.totals,
                                                  requests |-> <<>>],
                                                 sortedPeers, 1, raritySlice,
                                                 maxSimultaneousDownloadsPerPeer)
                             IN /\ status' = "running"
                                /\ peers' = c.peers
                                /\ activeRequestsTotals' = c.totals
                                /\ sent' = Sent(c.requests, r.cancels, haves)

newPeer(peerName) ==
    /\ status = "running"
    /\ lastEvent' = Event("newPeer", peerName, -1, FALSE, <<>>)
    /\ sent' = NoSent
    /\ IF peerName \in DOMAIN peers
         THEN /\ status' = "fatal"
              /\ UNCHANGED peers
         ELSE /\ status' = "running"
              /\ peers' = [q \in DOMAIN peers \cup {peerName} |->
                             IF q = peerName
                               THEN NewPeerInfo(Cardinality(DOMAIN finishedPieces))
                               ELSE peers[q]]
    /\ UNCHANGED <<finishedPieces, activeRequestsTotals, maxSimultaneousDownloadsPerPeer>>

deadPeerSkippingUnknown(peerName) ==
    /\ status = "running"
    /\ lastEvent' = Event("deadPeer", peerName, -1, FALSE, <<>>)
    /\ sent' = NoSent
    /\ status' = "running"
    /\ peers' = [q \in DOMAIN peers \ {peerName} |-> peers[q]]
    /\ UNCHANGED <<finishedPieces, activeRequestsTotals, maxSimultaneousDownloadsPerPeer>>

deadPeer(peerName) ==
    /\ status = "running"
    /\ lastEvent' = Event("deadPeer", peerName, -1, FALSE, <<>>)
    /\ sent' = NoSent
    /\ IF peerName \notin DOMAIN peers
         THEN /\ status' = "fatal"
              /\ UNCHANGED peers
         ELSE /\ status' = "running"
              /\ peers' = [q \in DOMAIN peers \ {peerName} |-> peers[q]]
    /\ UNCHANGED <<finishedPieces, activeRequestsTotals, maxSimultaneousDownloadsPerPeer>>

chokeStatus(peerName, isChoked) ==
    /\ status = "running"
    /\ lastEvent' = Event("chokeStatus", peerName, -1, isChoked, <<>>)
    /\ IF peerName \notin DOMAIN peers
         THEN /\ status' = "fatal"
              /\ sent' = NoSent
              /\ UNCHANGED <<peers, activeRequestsTotals>>
         ELSE LET c0 == [peers |-> [peers EXCEPT ![peerName].isChoked = isChoked],
                         totals |-> activeRequestsTotals, requests |-> <<>>]
                  c == IF isChoked
                         THEN removeUnfinishedWorkForPeer(c0, peerName)
                         ELSE sendRequestsToPeer(c0, peerName,
                                  createRaritySlice(c0.peers, finishedPieces),
                                  maxSimultaneousDownloadsPerPeer)
              IN /\ status' = "running"
                 /\ peers' = c.peers
                 /\ activeRequestsTotals' = c.totals
                 /\ sent' = Sent(c.requests, {}, {})
    /\ UNCHANGED <<finishedPieces, maxSimultaneousDownloadsPerPeer>>

\* The range over innerChan: [peers, failed, last], last being the peerName
\* the variable peerInfo points to when the loop ends ("" for nil).
RECURSIVE drainInnerChanNoDuplicateCheck(_, _, _)
drainInnerChanNoDuplicateCheck(acc, records, k) ==
    IF k > Len(records) \/ acc.failed THEN acc
    ELSE LET piece == records[k]
         IN IF piece.peerName \notin DOMAIN acc.peers
              THEN [acc EXCEPT !.failed = TRUE]
            ELSE drainInnerChanNoDuplicateCheck(
                   [peers |-> [acc.peers EXCEPT
                                 ![piece.peerName].availablePieces[piece.pieceNum] = TRUE],
                    failed |-> FALSE,
                    last |-> piece.peerName],
                   records, k + 1)

RECURSIVE drainInnerChan(_, _, _)
drainInnerChan(acc, records, k) ==
    IF k > Len(records) \/ acc.failed THEN acc
    ELSE LET piece == records[k]
         IN IF piece.peerName \notin DOMAIN acc.peers
              THEN [acc EXCEPT !.failed = TRUE]
            ELSE IF acc.peers[piece.peerName].availablePieces[piece.pieceNum]
              THEN [acc EXCEPT !.failed = TRUE, !.last = piece.peerName]
            ELSE drainInnerChan(
                   [peers |-> [acc.peers EXCEPT
                                 ![piece.peerName].availablePieces[piece.pieceNum] = TRUE],
                    failed |-> FALSE,
                    last |-> piece.peerName],
                   records, k + 1)

havePiece(records) ==
    /\ status = "running"
    /\ lastEvent' = Event("havePiece", "", -1, FALSE, records)
    /\ LET d == drainInnerChan([peers |-> peers, failed |-> FALSE, last |-> ""],
                               records, 1)
       IN IF d.failed
            THEN /\ status' = "fatal"
                 /\ peers' = d.peers
                 /\ sent' = NoSent
                 /\ UNCHANGED activeRequestsTotals
          ELSE IF d.last = ""
            THEN \* peerInfo is still nil: nil dereference
                 /\ status' = "panic"
                 /\ sent' = NoSent
                 /\ UNCHANGED <<peers, activeRequestsTotals>>
          ELSE LET c0 == [peers |-> d.peers, totals |-> activeRequestsTotals,
                          requests |-> <<>>]
                   peerInfo == d.peers[d.last]
                   c == IF ~peerInfo.isChoked
                           /\ Cardinality(peerInfo.activeRequests)
                                < maxSimultaneousDownloadsPerPeer
                          THEN sendRequestsToPeer(c0, d.last,
                                   createRaritySlice(c0.peers, finishedPieces),
                                   maxSimultaneousDownloadsPerPeer)
                          ELSE c0
               IN /\ status' = "running"
                  /\ peers' = c.peers
                  /\ activeRequestsTotals' = c.totals
                  /\ sent' = Sent(c.requests, {}, {})
    /\ UNCHANGED <<finishedPieces, maxSimultaneousDownloadsPerPeer>>

\* --------------------------------------------------------------- Next
\* A dead peer whose requests would push the totals, summed over the pieces,
\* more than MaxLeak above the requests the peers hold is not explored.
RECURSIVE Sum(_, _)
Sum(f, S) == IF S = {} THEN 0 ELSE LET x == Min(S) IN f[x] + Sum(f, S \ {x})

TotalLeak == Sum([i \in Pieces |-> Leak(peers, activeRequestsTotals, i)], Pieces)

WithinLeak(peerName) ==
    peerName \in DOMAIN peers =>
        TotalLeak + Cardinality(peers[peerName].activeRequests) <= MaxLeak

\* The batches a peer puts on the havePiece channel: a bitfield (any set of
\* pieces, in index order), one HAVE, or the same HAVE twice.
DuplicateBatches ==
    {<<HavePiece(p, i), HavePiece(p, i)>> : p \in PeerNames, i \in Pieces}

Batches ==
    {bitfieldRecords(p, S) : p \in PeerNames, S \in SUBSET Pieces} \cup DuplicateBatches

\* The steps of Spec are whole iterations of the select loop.
Atomic == UNCHANGED <<innerChan, bitfields, commands, pm>>

Next ==
    \/ \E p \in PeerNames, i \in Pieces : receivedPiece(p, i) /\ Observe /\ Spawn /\ Atomic
    \/ \E p \in PeerNames : newPeer(p) /\ Observe /\ Spawn /\ Atomic
    \/ \E p \in PeerNames : WithinLeak(p) /\ deadPeer(p) /\ Observe /\ Spawn /\ Atomic
    \/ \E p \in PeerNames, b \in BOOLEAN : chokeStatus(p, b) /\ Observe /\ Spawn /\ Atomic
    \/ \E records \in Batches : havePiece(records) /\ Observe /\ Spawn /\ Atomic

Spec == Init /\ [][Next]_vars

\* Scenario 1 has one peer: the events of SpecScenario1 name only it.
Scenario1Batches == {bitfieldRecords(Scenario1Peer, S) : S \in SUBSET Pieces}

NextScenario1 ==
    \/ \E i \in Pieces : receivedPiece(Scenario1Peer, i) /\ Observe /\ Spawn /\ Atomic
    \/ newPeer(Scenario1Peer) /\ Observe /\ Spawn /\ Atomic
    \/ WithinLeak(Scenario1Peer) /\ deadPeer(Scenario1Peer) /\ Observe /\ Spawn /\ Atomic
    \/ \E b \in BOOLEAN : chokeStatus(Scenario1Peer, b) /\ Observe /\ Spawn /\ Atomic
    \/ \E records \in Scenario1Batches : havePiece(records) /\ Observe /\ Spawn /\ Atomic

SpecScenario1 == InitScenario1 /\ [][NextScenario1]_vars

\* ------------------------------------------------------- Scenario 2
\* "P=3. Peer A has {0,1}, Peer B has {1,2}, Peer C has {1}. All unchoked
\* ... cap=1": the selection functions applied to a controller whose three
\* peers are unchoked and idle, whatever they advertise.
Scenario2Pieces == {0, 1, 2}
Scenario2PeerA == AllNames[1]
Scenario2PeerB == AllNames[2]
Scenario2PeerC == AllNames[3]
Scenario2Peers == {Scenario2PeerA, Scenario2PeerB, Scenario2PeerC}

InitScenario2 ==
    /\ finishedPieces = [i \in Scenario2Pieces |-> FALSE]
    /\ activeRequestsTotals = [i \in Scenario2Pieces |-> 0]
    /\ maxSimultaneousDownloadsPerPeer = 1
    /\ peers \in [Scenario2Peers ->
                    [isChoked : {FALSE},
                     availablePieces : [Scenario2Pieces -> BOOLEAN],
                     activeRequests : {{}}]]
    /\ status = "running"
    /\ lastEvent = NoEvent
    /\ sent = NoSent
    /\ senders = NoSenders
    /\ scenario = ScenarioOff
    /\ innerChan = NoInnerChan
    /\ bitfields = NoBitfields
    /\ commands = NoCommands
    /\ pm = NewPeerManager

\* One call of sendRequestsToPeer on a freshly created rarity slice, as the
\* unchoke and batch-close paths make it.
dispatch(peerName) ==
    /\ status = "running"
    /\ LET c == sendRequestsToPeer(
                   [peers |-> peers, totals |-> activeRequestsTotals,
                    requests |-> <<>>],
                   peerName, createRaritySlice(peers, finishedPieces),
                   maxSimultaneousDownloadsPerPeer)
       IN /\ peers' = c.peers
          /\ activeRequestsTotals' = c.totals
          /\ sent' = Sent(c.requests, {}, {})
    /\ lastEvent' = Event("dispatch", peerName, -1, FALSE, <<>>)
    /\ UNCHANGED <<finishedPieces, maxSimultaneousDownloadsPerPeer, status, scenario,
                 senders, innerChan, bitfields, commands, pm>>

NextScenario2 == \E p \in Scenario2Peers : dispatch(p)

SpecScenario2 == InitScenario2 /\ [][NextScenario2]_vars

\* ------------------------------------------------------- Scenario 4
\* "Peer A unchoked, activeRequests = {7,8,9} ... Peer A sends Choke": the
\* observer keeps, after a ChokeStatus(p, true) of a peer in the map, the
\* requests p held when the event arrived.
Flushed ==
    scenario' =
        IF /\ lastEvent'.kind = "chokeStatus"
           /\ lastEvent'.isChoked
           /\ lastEvent'.peerName \in DOMAIN peers
          THEN [phase |-> "flushed",
                requests |-> bitfieldRecords(lastEvent'.peerName,
                                 peers[lastEvent'.peerName].activeRequests)]
          ELSE ScenarioOff

InitScenario4 ==
    /\ \E fin \in [0..(NumPieces - 1) -> BOOLEAN] : NewController(fin)
    /\ maxSimultaneousDownloadsPerPeer \in Caps
    /\ scenario = ScenarioOff

NextScenario4 ==
    \/ \E p \in PeerNames, i \in Pieces : receivedPiece(p, i) /\ Flushed /\ Spawn /\ Atomic
    \/ \E p \in PeerNames : newPeer(p) /\ Flushed /\ Spawn /\ Atomic
    \/ \E p \in PeerNames : WithinLeak(p) /\ deadPeer(p) /\ Flushed /\ Spawn /\ Atomic
    \/ \E p \in PeerNames, b \in BOOLEAN : chokeStatus(p, b) /\ Flushed /\ Spawn /\ Atomic
    \/ \E records \in Batches : havePiece(records) /\ Flushed /\ Spawn /\ Atomic

SpecScenario4 == InitScenario4 /\ [][NextScenario4]_vars

\* ------------------------------- the havePiece case, record by record
\* Controller.Run is one goroutine: it is either at its select or inside the
\* range over the inner channel it received last.
AtSelectOrInRange == TRUE

AtSelect == ~innerChan.open

\* case innerChan := <- cont.rxChans.peer.havePiece
receiveInnerChan(records) ==
    /\ status = "running"
    /\ AtSelect
    /\ innerChan' = [open |-> TRUE, records |-> records, next |-> 1, last |-> "",
                     atReceive |-> peers]
    /\ lastEvent' = Event("innerChan", "", -1, FALSE, records)
    /\ sent' = NoSent
    /\ UNCHANGED <<finishedPieces, activeRequestsTotals, peers,
                   maxSimultaneousDownloadsPerPeer, status>>

\* One iteration of for piece := range innerChan.
rangeInnerChan ==
    /\ status = "running"
    /\ innerChan.open
    /\ innerChan.next <= Len(innerChan.records)
    /\ LET piece == innerChan.records[innerChan.next]
       IN /\ lastEvent' = Event("record", piece.peerName, piece.pieceNum, FALSE,
                                innerChan.records)
          /\ IF piece.peerName \notin DOMAIN peers
               THEN /\ status' = "fatal"
                    /\ UNCHANGED <<peers, innerChan>>
             ELSE IF peers[piece.peerName].availablePieces[piece.pieceNum]
               THEN /\ status' = "fatal"
                    /\ innerChan' = [innerChan EXCEPT !.last = piece.peerName]
                    /\ UNCHANGED peers
             ELSE /\ status' = "running"
                  /\ peers' = [peers EXCEPT
                                 ![piece.peerName].availablePieces[piece.pieceNum] = TRUE]
                  /\ innerChan' = [innerChan EXCEPT !.next = @ + 1,
                                                    !.last = piece.peerName]
    /\ sent' = NoSent
    /\ UNCHANGED <<finishedPieces, activeRequestsTotals, maxSimultaneousDownloadsPerPeer>>

\* The range ends when the sender closes the inner channel; the rest of the
\* case follows.
closeInnerChan ==
    /\ status = "running"
    /\ innerChan.open
    /\ innerChan.next > Len(innerChan.records)
    /\ lastEvent' = Event("havePiece", "", -1, FALSE, innerChan.records)
    /\ innerChan' = NoInnerChan
    /\ IF innerChan.last = ""
         THEN \* peerInfo is still nil: nil dereference
              /\ status' = "panic"
              /\ sent' = NoSent
              /\ UNCHANGED <<peers, activeRequestsTotals>>
         ELSE LET c0 == [peers |-> peers, totals |-> activeRequestsTotals,
                         requests |-> <<>>]
                  peerInfo == peers[innerChan.last]
                  c == IF ~peerInfo.isChoked
                          /\ Cardinality(peerInfo.activeRequests)
                               < maxSimultaneousDownloadsPerPeer
                         THEN sendRequestsToPeer(c0, innerChan.last,
                                  createRaritySlice(c0.peers, finishedPieces),
                                  maxSimultaneousDownloadsPerPeer)
                         ELSE c0
              IN /\ status' = "running"
                 /\ peers' = c.peers
                 /\ activeRequestsTotals' = c.totals
                 /\ sent' = Sent(c.requests, {}, {})
    /\ UNCHANGED <<finishedPieces, maxSimultaneousDownloadsPerPeer>>

\* The steps of SpecBatch leave the other goroutines as constructed.
InBatch == UNCHANGED <<scenario, bitfields, commands, pm>>

InitBatch ==
    /\ NewController([i \in 0..(NumPieces - 1) |-> FALSE])
    /\ maxSimultaneousDownloadsPerPeer \in Caps
    /\ scenario = ScenarioOff

NextBatch ==
    \/ \E p \in PeerNames, i \in Pieces :
          AtSelect /\ receivedPiece(p, i) /\ Spawn /\ InBatch /\ UNCHANGED innerChan
    \/ \E p \in PeerNames :
          AtSelect /\ newPeer(p) /\ Spawn /\ InBatch /\ UNCHANGED innerChan
    \/ \E p \in PeerNames :
          AtSelect /\ WithinLeak(p) /\ deadPeer(p) /\ Spawn /\ InBatch
                   /\ UNCHANGED innerChan
    \/ \E p \in PeerNames, b \in BOOLEAN :
          AtSelect /\ chokeStatus(p, b) /\ Spawn /\ InBatch /\ UNCHANGED innerChan
    \/ \E records \in Batches : receiveInnerChan(records) /\ Spawn /\ InBatch
    \/ rangeInnerChan /\ Spawn /\ InBatch
    \/ closeInnerChan /\ Spawn /\ InBatch

SpecBatch == InitBatch /\ [][NextBatch]_vars

\* ------------------------------------- commands on their way to a peer
\* Every RequestPiece and CancelPiece is sent by a goroutine of its own, on
\* the unbuffered requestPiece or cancelPiece channel of a peer; the peer
\* takes one blocked sender at a time.
Command(peerName, kind, pieceNum) ==
    [peerName |-> peerName, kind |-> kind, pieceNum |-> pieceNum]

RECURSIVE cancelCommands(_, _)
cancelCommands(via, pieceNum) ==
    IF DOMAIN via = {} THEN <<>>
    ELSE LET q == CHOOSE x \in DOMAIN via : TRUE
         IN <<Command(via[q], "cancel", pieceNum)>>
              \o cancelCommands([x \in DOMAIN via \ {q} |-> via[x]], pieceNum)

requestCommands(requests) ==
    [k \in DOMAIN requests |->
        Command(requests[k].peerName, "request", requests[k].pieceNum)]

\* The goroutines one iteration of the loop starts, in the order of their go
\* statements: removePieceFromActiveRequests runs before any
\* sendRequestsToPeer.
Issue ==
    /\ commands' = [commands EXCEPT !.issued =
                       @ \o cancelCommands(senders'.cancel, lastEvent'.pieceNum)
                         \o requestCommands(sent'.requests)]
    /\ Len(commands'.issued) <= MaxCommands

WithinCommands == Len(commands.issued) < MaxCommands

Blocked == DOMAIN commands.issued \ {commands.received[k] : k \in DOMAIN commands.received}

\* A peer receives from one of the goroutines blocked on its channels.
receiveCommand(k) ==
    /\ status = "running"
    /\ k \in Blocked
    /\ commands' = [commands EXCEPT !.received = Append(@, k)]
    /\ UNCHANGED <<finishedPieces, activeRequestsTotals, peers,
                   maxSimultaneousDownloadsPerPeer, status, lastEvent, sent,
                   senders>>

InCommands == UNCHANGED <<scenario, innerChan, bitfields, pm>>

InitCommands ==
    /\ NewController([i \in 0..(NumPieces - 1) |-> FALSE])
    /\ maxSimultaneousDownloadsPerPeer = DefaultMaxSimultaneousDownloads
    /\ scenario = ScenarioOff

\* What a peer has not announced yet.
Unannounced(p) == {i \in Pieces : ~peers[p].availablePieces[i]}

\* SpecCommands follows the events that do not end the process: events of
\* admitted peers, new names, announcements of pieces not announced before.
NextCommands ==
    \/ \E p \in DOMAIN peers, i \in Pieces :
          WithinCommands /\ receivedPiece(p, i) /\ Spawn /\ Issue /\ InCommands
    \/ \E p \in PeerNames \ DOMAIN peers :
          WithinCommands /\ newPeer(p) /\ Spawn /\ Issue /\ InCommands
    \/ \E p \in DOMAIN peers, b \in BOOLEAN :
          WithinCommands /\ chokeStatus(p, b) /\ Spawn /\ Issue /\ InCommands
    \/ \E p \in DOMAIN peers : \E S \in SUBSET Unannounced(p) \ {{}} :
          WithinCommands /\ havePiece(bitfieldRecords(p, S)) /\ Spawn /\ Issue
                         /\ InCommands
    \/ \E k \in 1..MaxCommands : receiveCommand(k) /\ InCommands

SpecCommands == InitCommands /\ [][NextCommands]_vars

\* ------------------------------------- the goroutine of a new peer's bitfield
\* sendBitfieldOverChannel copies the bitfield and starts a goroutine, which
\* ranges over the slice it was passed, cont.finishedPieces, not over the
\* copy: every iteration reads the element the controller has by then.
\*   snapshot  the pieces of bitfieldCopy
\*   next      the index of the next iteration of the range
\*   batch     the records put on the inner channel so far
\*   haves     the pieces of the HAVE messages sendHaveToPeersWhoNeedPiece
\*             has created for this peer since
Finished(fin) == {i \in DOMAIN fin : fin[i]}

sendBitfieldOverChannel(peerName) ==
    bitfields' = [q \in DOMAIN bitfields \cup {peerName} |->
                    IF q = peerName
                      THEN [snapshot |-> Finished(finishedPieces), next |-> 0,
                            batch |-> <<>>, closed |-> FALSE, haves |-> <<>>]
                      ELSE bitfields[q]]

recordHaves ==
    bitfields' = [q \in DOMAIN bitfields |->
                    IF q \in sent'.haves
                      THEN [bitfields[q] EXCEPT !.haves = Append(@, lastEvent'.pieceNum)]
                      ELSE bitfields[q]]

\* One iteration of for pieceNum, havePiece := range bitfield.
rangeBitfield(peerName) ==
    /\ status = "running"
    /\ peerName \in DOMAIN bitfields
    /\ ~bitfields[peerName].closed
    /\ bitfields[peerName].next < Cardinality(Pieces)
    /\ LET pieceNum == bitfields[peerName].next
           havePiece_ == finishedPieces[pieceNum]
       IN bitfields' = [bitfields EXCEPT
                          ![peerName].next = pieceNum + 1,
                          ![peerName].batch =
                              IF havePiece_ THEN Append(@, HavePiece(peerName, pieceNum))
                                            ELSE @]
    /\ UNCHANGED <<finishedPieces, activeRequestsTotals, peers,
                   maxSimultaneousDownloadsPerPeer, status, lastEvent, sent, senders>>

\* close(innerChan)
closeBitfield(peerName) ==
    /\ status = "running"
    /\ peerName \in DOMAIN bitfields
    /\ ~bitfields[peerName].closed
    /\ bitfields[peerName].next = Cardinality(Pieces)
    /\ bitfields' = [bitfields EXCEPT ![peerName].closed = TRUE]
    /\ UNCHANGED <<finishedPieces, activeRequestsTotals, peers,
                   maxSimultaneousDownloadsPerPeer, status, lastEvent, sent, senders>>

InBitfield == UNCHANGED <<scenario, innerChan, commands, pm>>

InitBitfield ==
    /\ \E fin \in [0..(NumPieces - 1) -> BOOLEAN] : NewController(fin)
    /\ maxSimultaneousDownloadsPerPeer = DefaultMaxSimultaneousDownloads
    /\ scenario = ScenarioOff

\* SpecBitfield follows new peers and the pieces the disk layer reports, each
\* piece once and for an admitted peer.
NextBitfield ==
    \/ \E p \in PeerNames \ DOMAIN peers :
          newPeer(p) /\ Spawn /\ sendBitfieldOverChannel(p) /\ InBitfield
    \/ \E p \in DOMAIN peers, i \in Pieces \ Finished(finishedPieces) :
          receivedPiece(p, i) /\ Spawn /\ recordHaves /\ InBitfield
    \/ \E p \in PeerNames : rangeBitfield(p) /\ InBitfield
    \/ \E p \in PeerNames : closeBitfield(p) /\ InBitfield

SpecBitfield == InitBitfield /\ [][NextBitfield]_vars

\* ------------------------------------------ PeerManager and its sessions
\* pm.peers is the registry; an entry is a Peer and its goroutines:
\*   initiator  whether the PeerManager dialled
\*   dial       the goroutine of ConnectToPeer: "none", "dialing",
\*              "refused" (returned), "connected" (blocked in connCh <- conn),
\*              "delivered" (returned)
\*   conn       whether p.conn is set
\*   run        the goroutine of Peer.Run: "none", "handshake", "select",
\*              "deadPeer" (blocked in the send on peerManagerChans.deadPeer)
\*   handshake  how doHandshake went
\*   reader     the goroutine of Peer.Reader: "none", "reading", "EOF",
\*              "ECONNRESET" (returned), "blocked" (in p.read <- buf)
\*   dying      whether p.t has been killed
\* pm.run is the goroutine of PeerManager.Run: "select", "stopping" (inside
\* peer.Stop() of pm.waiting), "done"; pm.dying is whether pm.t was killed.
\* NewPeer does not set p.peerManagerChans, so the deadPeer channel of a Peer
\* is nil and a send on it never completes; nothing calls p.t.Done(), so
\* p.t.Wait() never returns; nothing sends on pm.peerChans.deadPeer, so the
\* deadPeer case of PeerManager.Run is never taken and has no action here.
NewPeer(initiator) ==
    [initiator |-> initiator, dial |-> "none", conn |-> FALSE, run |-> "none",
     handshake |-> "none", reader |-> "none", dying |-> FALSE]

HandshakeMismatches == {"pstrlen", "protocol", "infoHash"}
TransportErrors == {"EOF", "ECONNRESET"}

\* case peer := <-pm.trackerChans.peers, for a name not in the registry (a
\* registered name is skipped).
trackerPeer(peerID) ==
    /\ status = "running"
    /\ pm.run = "select"
    /\ peerID \notin DOMAIN pm.peers
    /\ pm' = [pm EXCEPT !.peers =
                 [q \in DOMAIN pm.peers \cup {peerID} |->
                     IF q = peerID THEN [NewPeer(TRUE) EXCEPT !.dial = "dialing"]
                                   ELSE pm.peers[q]]]
    /\ UNCHANGED status

ConnectToPeer(peerID, result) ==
    /\ status = "running"
    /\ peerID \in DOMAIN pm.peers
    /\ pm.peers[peerID].dial = "dialing"
    /\ IF result = "ECONNREFUSED"
         THEN pm' = [pm EXCEPT !.peers[peerID].dial = "refused"] /\ UNCHANGED status
       ELSE IF result = "error"
         THEN status' = "fatal" /\ UNCHANGED pm
       ELSE pm' = [pm EXCEPT !.peers[peerID].dial = "connected"] /\ UNCHANGED status

\* case conn := <-pm.serverChans.conns, the connection coming from a dial.
dialedConn(peerID) ==
    /\ status = "running"
    /\ pm.run = "select"
    /\ peerID \in DOMAIN pm.peers
    /\ pm.peers[peerID].dial = "connected"
    /\ pm' = [pm EXCEPT !.peers[peerID].dial = "delivered",
                        !.peers[peerID].conn = TRUE,
                        !.peers[peerID].run = "handshake"]
    /\ UNCHANGED status

\* case conn := <-pm.serverChans.conns, an accepted connection of a remote
\* address that has no entry.
acceptedConn(peerID) ==
    /\ status = "running"
    /\ pm.run = "select"
    /\ peerID \notin DOMAIN pm.peers
    /\ pm' = [pm EXCEPT !.peers =
                 [q \in DOMAIN pm.peers \cup {peerID} |->
                     IF q = peerID
                       THEN [NewPeer(FALSE) EXCEPT !.conn = TRUE, !.run = "handshake"]
                       ELSE pm.peers[q]]]
    /\ UNCHANGED status

\* doHandshake, then go p.Reader(): an unexpected handshake is log.Fatal, an
\* EOF or a reset is returned by receiveHandshake and dropped by doHandshake.
doHandshake(peerID, result) ==
    /\ status = "running"
    /\ peerID \in DOMAIN pm.peers
    /\ pm.peers[peerID].run = "handshake"
    /\ IF result \in HandshakeMismatches \cup {"error"}
         THEN /\ status' = "fatal"
              /\ pm' = [pm EXCEPT !.peers[peerID].handshake = result]
         ELSE /\ pm' = [pm EXCEPT !.peers[peerID].handshake = result,
                                  !.peers[peerID].run = "select",
                                  !.peers[peerID].reader = "reading"]
              /\ UNCHANGED status

\* One p.conn.Read of Reader that changes where the goroutines are: an EOF or
\* a reset (return), another error (log.Fatal), or data while Run has left
\* its select (p.read <- buf never completes). Data handed to a Run at its
\* select leaves Reader at the next Read.
Reader(peerID, result) ==
    /\ status = "running"
    /\ peerID \in DOMAIN pm.peers
    /\ pm.peers[peerID].reader = "reading"
    /\ IF result \in TransportErrors
         THEN pm' = [pm EXCEPT !.peers[peerID].reader = result] /\ UNCHANGED status
       ELSE IF result = "error"
         THEN status' = "fatal" /\ UNCHANGED pm
       ELSE /\ pm.peers[peerID].run = "deadPeer"
            /\ pm' = [pm EXCEPT !.peers[peerID].reader = "blocked"]
            /\ UNCHANGED status

\* PeerManager.Stop: pm.t.Kill(nil); the caller then waits in pm.t.Wait().
Stop ==
    /\ status = "running"
    /\ ~pm.dying
    /\ pm' = [pm EXCEPT !.dying = TRUE]
    /\ UNCHANGED status

\* case <-pm.t.Dying(): with an empty registry Run returns and the deferred
\* pm.t.Done() runs; otherwise Run calls Stop of the first peer of the range,
\* which kills p.t and waits in p.t.Wait().
pmDying ==
    /\ status = "running"
    /\ pm.run = "select"
    /\ pm.dying
    /\ IF DOMAIN pm.peers = {}
         THEN pm' = [pm EXCEPT !.run = "done"]
         ELSE \E peerID \in DOMAIN pm.peers :
                pm' = [pm EXCEPT !.run = "stopping", !.waiting = peerID,
                                 !.peers[peerID].dying = TRUE]
    /\ UNCHANGED status

\* case <-p.t.Dying() of Peer.Run: the send on the nil deadPeer channel.
peerDying(peerID) ==
    /\ status = "running"
    /\ peerID \in DOMAIN pm.peers
    /\ pm.peers[peerID].run = "select"
    /\ pm.peers[peerID].dying
    /\ pm' = [pm EXCEPT !.peers[peerID].run = "deadPeer"]
    /\ UNCHANGED status

InPeerManager ==
    UNCHANGED <<finishedPieces, activeRequestsTotals, peers,
                maxSimultaneousDownloadsPerPeer, lastEvent, sent, scenario,
                senders, innerChan, bitfields, commands>>

InitPeerManager ==
    /\ NewController([i \in 0..(NumPieces - 1) |-> FALSE])
    /\ maxSimultaneousDownloadsPerPeer = DefaultMaxSimultaneousDownloads
    /\ scenario = ScenarioOff

DialResults == {"ECONNREFUSED", "error", "connected"}
HandshakeResults == HandshakeMismatches \cup TransportErrors \cup {"error", "ok"}
ReadResults == TransportErrors \cup {"error", "data"}

NextPeerManager ==
    \/ \E p \in PeerNames : trackerPeer(p) /\ InPeerManager
    \/ \E p \in PeerNames, r \in DialResults : ConnectToPeer(p, r) /\ InPeerManager
    \/ \E p \in PeerNames : dialedConn(p) /\ InPeerManager
    \/ \E p \in PeerNames : acceptedConn(p) /\ InPeerManager
    \/ \E p \in PeerNames, r \in HandshakeResults : doHandshake(p, r) /\ InPeerManager
    \/ \E p \in PeerNames, r \in ReadResults : Reader(p, r) /\ InPeerManager
    \/ Stop /\ InPeerManager
    \/ pmDying /\ InPeerManager
    \/ \E p \in PeerNames : peerDying(p) /\ InPeerManager

\* Every goroutine that can take a step takes one; what a dial, a handshake
\* or a read returns is up to the network.
FairPeerManager ==
    /\ \A p \in PeerNames :
          /\ WF_vars(\E r \in DialResults : ConnectToPeer(p, r) /\ InPeerManager)
          /\ WF_vars(dialedConn(p) /\ InPeerManager)
          /\ WF_vars(\E r \in HandshakeResults : doHandshake(p, r) /\ InPeerManager)
          /\ WF_vars(peerDying(p) /\ InPeerManager)
    /\ WF_vars(pmDying /\ InPeerManager)

SpecPeerManager == InitPeerManager /\ [][NextPeerManager]_vars /\ FairPeerManager

TypeOK ==
    /\ status \in {"running", "fatal", "panic"}
    /\ DOMAIN peers \subseteq PeerNames
    /\ \A i \in Pieces : activeRequestsTotals[i] \in 0..(MaxPeers + MaxLeak)

\* =============================================================== claims
Running == status = "running"

\* C1: after every iteration that does not crash, for every piece i,
\* activeRequestsTotals[i] is the number of peers of the map whose
\* activeRequests contains i.
C1_TotalsMatchHolders ==
    Running =>
        \A i \in Pieces :
            activeRequestsTotals[i] = Cardinality(Holders(peers, i))

\* C2: after every iteration, no peer of the map has a finished piece in its
\* activeRequests, whether or not the peer a ReceivedPiece names had it.
C2_NoRequestForFinishedPiece ==
    Running =>
        \A i \in Pieces : finishedPieces[i] => Holders(peers, i) = {}

\* C3: every peer's activeRequests has at most
\* maxSimultaneousDownloadsPerPeer elements.
C3_CapRespected ==
    \A p \in DOMAIN peers :
        Cardinality(peers[p].activeRequests) <= maxSimultaneousDownloadsPerPeer

\* The pieces a dispatch to p could still ask p for.
Eligible(p) ==
    {i \in Pieces : /\ peers[p].availablePieces[i]
                    /\ ~finishedPieces[i]
                    /\ i \notin peers[p].activeRequests}

\* A dispatch has just filled a peer up to the cap and left an eligible
\* piece unrequested.
C3_Witness ==
    /\ Running
    /\ sent.requests # <<>>
    /\ \E p \in DOMAIN peers :
          /\ Cardinality(peers[p].activeRequests) = maxSimultaneousDownloadsPerPeer
          /\ Eligible(p) # {}

\* C4: after every iteration, every choked peer has an empty activeRequests.
C4_ChokedPeerIdle ==
    \A p \in DOMAIN peers : peers[p].isChoked => peers[p].activeRequests = {}

\* The re-dispatch after a ReceivedPiece has given requests to some peer and
\* passed over a choked peer that advertises an unfinished piece.
C4_Witness ==
    /\ Running
    /\ lastEvent.kind = "receivedPiece"
    /\ sent.requests # <<>>
    /\ \E p \in DOMAIN peers : peers[p].isChoked /\ Eligible(p) # {}

\* C5: after the controller processes ReceivedPiece(p, i), either
\* activeRequestsTotals[i] is 0 or the controller has failed; it does not go
\* on running with a nonzero total for the finished piece.
C5_ZeroTotalOrFailed ==
    lastEvent.kind = "receivedPiece" =>
        \/ activeRequestsTotals[lastEvent.pieceNum] = 0
        \/ ~Running

\* C6: processing DeadPeer(p) for a known peer p decrements
\* activeRequestsTotals[i] by one for each i of p.activeRequests, leaves the
\* other totals alone and removes p from the map.
C6_DeadPeerDecrements ==
    [][\A p \in DOMAIN peers :
          (lastEvent'.kind = "deadPeer" /\ lastEvent'.peerName = p) =>
              /\ p \notin DOMAIN peers'
              /\ activeRequestsTotals' =
                    [i \in Pieces |->
                        IF i \in peers[p].activeRequests
                          THEN activeRequestsTotals[i] - 1
                          ELSE activeRequestsTotals[i]]]_vars

\* Position of a piece in a sequence of pieces (0 when absent).
PositionIn(seq, pieceNum) ==
    IF \E k \in DOMAIN seq : seq[k] = pieceNum
      THEN CHOOSE k \in DOMAIN seq : seq[k] = pieceNum
      ELSE 0

\* For the requests reqs one iteration created: the total of piece i that the
\* dispatch to p read, i.e. the total the event found plus the requests the
\* iteration had created for other peers before it turned to p.
TotalAtDispatch(reqs, totals, p, i) ==
    totals[i] + Cardinality({k \in DOMAIN reqs :
                                /\ reqs[k].peerName # p
                                /\ reqs[k].pieceNum = i
                                /\ \E m \in DOMAIN reqs : m > k /\ reqs[m].peerName = p})

\* (total, rarity position) of a before that of b
KeyBefore(ta, ra, tb, rb) == ta < tb \/ (ta = tb /\ ra < rb)

\* C7: within one dispatch to a peer the candidates are requested in
\* ascending order of activeRequestsTotals as read at the start of the
\* dispatch, ties in ascending rarity position, from the front of that order
\* until the peer reaches the cap: no skipped candidate precedes a chosen one.
C7_DispatchOrder ==
    [][Running' =>
        LET reqs == sent'.requests
            rarity == createRaritySlice(peers', finishedPieces')
            total(p, i) == TotalAtDispatch(reqs, activeRequestsTotals, p, i)
            candidates(p) == {i \in Pieces : /\ peers'[p].availablePieces[i]
                                             /\ ~finishedPieces'[i]
                                             /\ i \notin peers[p].activeRequests}
            chosen(p) == {reqs[k].pieceNum : k \in {m \in DOMAIN reqs : reqs[m].peerName = p}}
        IN /\ \A a, b \in DOMAIN reqs :
                (a < b /\ reqs[a].peerName = reqs[b].peerName) =>
                    KeyBefore(total(reqs[a].peerName, reqs[a].pieceNum),
                              PositionIn(rarity, reqs[a].pieceNum),
                              total(reqs[b].peerName, reqs[b].pieceNum),
                              PositionIn(rarity, reqs[b].pieceNum))
           /\ \A a \in DOMAIN reqs :
                LET p == reqs[a].peerName
                IN /\ chosen(p) \subseteq candidates(p)
                   /\ \A i \in candidates(p) \ chosen(p) :
                        /\ KeyBefore(total(p, reqs[a].pieceNum),
                                     PositionIn(rarity, reqs[a].pieceNum),
                                     total(p, i), PositionIn(rarity, i))
                        /\ Cardinality(peers'[p].activeRequests)
                             = maxSimultaneousDownloadsPerPeer]_vars

\* One dispatch asked a peer for two pieces, the higher index first: the
\* order came from the totals or the rarity, not from the piece numbers.
C7_Witness ==
    /\ Running
    /\ Len(sent.requests) >= 2
    /\ \E a, b \in DOMAIN sent.requests :
          /\ a < b
          /\ sent.requests[a].peerName = sent.requests[b].peerName
          /\ sent.requests[a].pieceNum > sent.requests[b].pieceNum
          /\ activeRequestsTotals[sent.requests[a].pieceNum]
               < activeRequestsTotals[sent.requests[b].pieceNum]

\* C8: every RequestPiece(i) created for a peer p is for a piece p has
\* advertised, that is not finished and that was not in p.activeRequests
\* when the dispatch began; a piece another peer works on stays eligible.
C8_RequestsAreEligible ==
    [][\A k \in DOMAIN sent'.requests :
          LET p == sent'.requests[k].peerName
              i == sent'.requests[k].pieceNum
          IN /\ p \in DOMAIN peers /\ p \in DOMAIN peers'
             /\ peers'[p].availablePieces[i]
             /\ ~finishedPieces'[i]
             /\ i \notin peers[p].activeRequests
             /\ i \in peers'[p].activeRequests
             /\ \A m \in DOMAIN sent'.requests :
                   (sent'.requests[m] = sent'.requests[k]) => m = k]_vars

\* A request for a piece has just gone to one peer while another peer is
\* working on the same piece and keeps it.
C8_Witness ==
    /\ Running
    /\ \E k \in DOMAIN sent.requests :
          LET p == sent.requests[k].peerName
              i == sent.requests[k].pieceNum
          IN \E q \in DOMAIN peers \ {p} :
                /\ i \in peers[q].activeRequests
                /\ \A m \in DOMAIN sent.requests : sent.requests[m].peerName # q

\* The number of unchoked peers that advertise piece i.
UnchokedAdvertisers(i) ==
    Cardinality({p \in DOMAIN peers :
                    ~peers[p].isChoked /\ peers[p].availablePieces[i]})

\* C9: the rarity sequence holds exactly the unfinished piece indices, once
\* each, in ascending count of unchoked advertising peers, equal counts in
\* ascending piece index.
C9_RaritySlice ==
    LET rarity == createRaritySlice(peers, finishedPieces)
    IN /\ {rarity[k] : k \in DOMAIN rarity} = {i \in Pieces : ~finishedPieces[i]}
       /\ \A a, b \in DOMAIN rarity :
            a < b => KeyBefore(UnchokedAdvertisers(rarity[a]), rarity[a],
                               UnchokedAdvertisers(rarity[b]), rarity[b])

\* A dispatch has run on a rarity sequence in which a higher piece index
\* comes first although a choked peer advertises it.
C9_Witness ==
    /\ Running
    /\ sent.requests # <<>>
    /\ LET rarity == createRaritySlice(peers, finishedPieces)
       IN \E a, b \in DOMAIN rarity :
            /\ a < b
            /\ rarity[a] > rarity[b]
            /\ \E p \in DOMAIN peers :
                  peers[p].isChoked /\ peers[p].availablePieces[rarity[a]]

AllFinished == \A i \in Pieces : finishedPieces[i]

\* C10, as amended: in Scenario 1 (P=4, nothing finished, cap 5), after
\* NewPeer(1.1.1.1:6881), the closed batch {0,1,2,3} of that peer and the
\* peer's unchoke, the controller has created exactly four RequestPiece
\* commands, all for that peer, for pieces 0,1,2,3; it creates no more while
\* the four ReceivedPiece events arrive, and after them finishedPieces is all
\* true and activeRequestsTotals all zero.
C10_Scenario1 ==
    scenario.phase = "unchoked" =>
        /\ Running
        /\ Len(scenario.requests) = 4
        /\ \A k \in DOMAIN scenario.requests :
              scenario.requests[k].peerName = Scenario1Peer
        /\ {scenario.requests[k].pieceNum : k \in DOMAIN scenario.requests}
              = Scenario1Pieces
        /\ AllFinished => \A i \in Pieces : activeRequestsTotals[i] = 0

C10_Witness ==
    /\ scenario.phase = "unchoked"
    /\ AllFinished
    /\ Running

\* C10, as claimed: the four requests exist once the batch is closed.
C10_RequestsAtBatchClose ==
    scenario.phase = "announced" =>
        /\ Len(scenario.requests) = 4
        /\ {scenario.requests[k].pieceNum : k \in DOMAIN scenario.requests}
              = Scenario1Pieces

\* What the peers of Scenario 2 advertise, and what each is to be asked for.
Scenario2Has(p) ==
    CASE p = Scenario2PeerA -> {0, 1}
      [] p = Scenario2PeerB -> {1, 2}
      [] OTHER -> {1}

Scenario2Expected(p) ==
    CASE p = Scenario2PeerA -> 0
      [] p = Scenario2PeerB -> 2
      [] OTHER -> 1

Scenario2State ==
    /\ DOMAIN peers = Scenario2Peers
    /\ \A p \in Scenario2Peers :
          {i \in Pieces : peers[p].availablePieces[i]} = Scenario2Has(p)

\* C11: in Scenario 2 (P=3, cap 1, A={0,1}, B={1,2}, C={1}, all unchoked,
\* nothing finished or requested) a dispatch to each peer gives A piece 0,
\* B piece 2 and C piece 1, in whichever order the peers are dispatched.
C11_Scenario2 ==
    Scenario2State =>
        /\ createRaritySlice(peers, finishedPieces) = <<0, 2, 1>>
        /\ \A p \in Scenario2Peers :
              /\ peers[p].activeRequests \subseteq {Scenario2Expected(p)}
              /\ (lastEvent.kind = "dispatch" /\ lastEvent.peerName = p)
                    => peers[p].activeRequests = {Scenario2Expected(p)}

C11_Witness ==
    /\ Scenario2State
    /\ lastEvent.kind = "dispatch"
    /\ \A p \in Scenario2Peers : peers[p].activeRequests = {Scenario2Expected(p)}

\* C12: when the controller processes ReceivedPiece(p, i) from a peer p that
\* was working on i (Scenario 3), one CancelPiece(i) goes out on the cancel
\* channel of every peer q # p that had i in its activeRequests and on the
\* channel of no other peer, however the sender goroutines are scheduled.
C12_CancelReachesHolders ==
    [][(/\ lastEvent'.kind = "receivedPiece"
        /\ Running'
        /\ lastEvent'.peerName \in DOMAIN peers
        /\ lastEvent'.pieceNum \in peers[lastEvent'.peerName].activeRequests) =>
          \A q \in DOMAIN peers :
              SendsOn(senders'.cancel, q) =
                  IF q # lastEvent'.peerName
                     /\ lastEvent'.pieceNum \in peers[q].activeRequests
                    THEN 1 ELSE 0]_vars

\* A record of the batch repeats an announcement: its piece is already marked
\* in the availablePieces of its peer, or an earlier record of the batch is
\* the same.
Duplicate(ps, records) ==
    \E k \in DOMAIN records :
        /\ records[k].peerName \in DOMAIN ps
        /\ \/ ps[records[k].peerName].availablePieces[records[k].pieceNum]
           \/ \E j \in 1..(k - 1) : records[j] = records[k]

\* C13: a HavePiece batch in which a peer announces a piece it has already
\* announced, in an earlier batch or earlier in the same batch, ends the
\* controller with a fatal error and without a dispatch, and a controller that
\* failed fatally processes no further event.
C13_DuplicateHaveIsFatal ==
    [][/\ status # "fatal"
       /\ (lastEvent'.kind = "havePiece" /\ Duplicate(peers, lastEvent'.records))
             => (status' = "fatal" /\ sent' = NoSent)]_vars

\* A batch carrying the same HAVE twice has stopped the controller; the first
\* of the two records was applied.
C13_Witness ==
    /\ status = "fatal"
    /\ lastEvent.kind = "havePiece"
    /\ lastEvent.records \in DuplicateBatches
    /\ lastEvent.records[1].peerName \in DOMAIN peers
    /\ peers[lastEvent.records[1].peerName].availablePieces[lastEvent.records[1].pieceNum]
    /\ \E i \in Pieces : ~peers[lastEvent.records[1].peerName].availablePieces[i]

\* C15: while the controller ranges over an inner channel it handles nothing
\* but the records of that channel and its close; no command is created
\* before the close; at the close every record of the batch is marked in
\* availablePieces, the peers are what the whole batch applied to the peers at
\* the receipt of the channel gives, and the one dispatch decision follows.
C15_BatchIsAtomic ==
    [][innerChan.open =>
          /\ lastEvent'.kind \in {"record", "havePiece"}
          /\ lastEvent'.records = innerChan.records
          /\ lastEvent'.kind = "record" => (sent' = NoSent /\ innerChan'.open)
          /\ lastEvent'.kind = "havePiece" =>
                LET d == drainInnerChan([peers |-> innerChan.atReceive,
                                         failed |-> FALSE, last |-> ""],
                                        innerChan.records, 1)
                IN /\ ~innerChan'.open
                   /\ ~d.failed
                   /\ d.last = innerChan.last
                   /\ d.peers = peers
                   /\ \A k \in DOMAIN innerChan.records :
                         peers[innerChan.records[k].peerName]
                             .availablePieces[innerChan.records[k].pieceNum]]_vars

\* A batch of two records was closed and its dispatch created requests.
C15_Witness ==
    /\ Running
    /\ lastEvent.kind = "havePiece"
    /\ Len(lastEvent.records) = 2
    /\ Len(sent.requests) = 2
    /\ ~innerChan.open

\* C16: a peer never receives two commands of the controller against the
\* order in which the controller created them, when both are RequestPiece or
\* the earlier is RequestPiece(i) and the later CancelPiece(i).
C16_CommandsArriveInIssueOrder ==
    \A a, b \in DOMAIN commands.received :
        LET first == commands.issued[commands.received[a]]
            second == commands.issued[commands.received[b]]
        IN (/\ a < b
            /\ first.peerName = second.peerName
            /\ \/ first.kind = "request" /\ second.kind = "request"
               \/ /\ first.kind = "cancel" /\ second.kind = "request"
                  /\ first.pieceNum = second.pieceNum)
           => commands.received[a] < commands.received[b]

Told(p, i) ==
    Cardinality({k \in DOMAIN bitfields[p].batch : bitfields[p].batch[k].pieceNum = i})
      + Cardinality({k \in DOMAIN bitfields[p].haves : bitfields[p].haves[k] = i})

\* C19: once the bitfield batch of a new peer is closed, its records are the
\* pieces that were finished when NewPeer was processed, whatever
\* ReceivedPiece events came in between, and the batch and the HAVE messages
\* created for the peer since tell it every finished piece exactly once.
C19_BitfieldIsSnapshot ==
    \A p \in DOMAIN bitfields :
        bitfields[p].closed =>
            /\ bitfields[p].batch = bitfieldRecords(p, bitfields[p].snapshot)
            /\ \A i \in Finished(finishedPieces) : Told(p, i) = 1

Exited == status # "running"

\* C14: after a handshake with an unexpected pstrlen, protocol string or info
\* hash in one session, the process is still running (the PeerManager, the
\* controller and the other sessions go on).
C14_HandshakeFailureIsConfined ==
    \A p \in DOMAIN pm.peers :
        pm.peers[p].handshake \in HandshakeMismatches => Running

\* C17: once PeerManager.Stop has killed pm.t, PeerManager.Run eventually
\* returns (or the process has ended by then), whatever the registry holds.
C17_StopReturns == pm.dying ~> (pm.run = "done" \/ Exited)

\* A session whose dial was refused or whose Reader met an EOF or a reset.
TransportError(p) ==
    /\ p \in DOMAIN pm.peers
    /\ \/ pm.peers[p].dial = "refused"
       \/ pm.peers[p].reader \in TransportErrors

\* C18: the registry entry of a session that met a transport error is
\* eventually removed (or the process has ended by then).
C18_TransportErrorRemovesEntry ==
    \A p \in PeerNames :
        TransportError(p) ~> (p \notin DOMAIN pm.peers \/ Exited)

\* C20: when the controller processes ReceivedPiece(_, i), one HAVE(i) batch
\* goes out on the havePiece channel of each peer whose availablePieces[i] is
\* false and on the channel of no peer whose availablePieces[i] is true,
\* however the sender goroutines are scheduled.
C20_HaveReachesPeersWhoNeedPiece ==
    [][(lastEvent'.kind = "receivedPiece" /\ Running') =>
          \A q \in DOMAIN peers :
              SendsOn(senders'.have, q) =
                  IF peers[q].availablePieces[lastEvent'.pieceNum] THEN 0 ELSE 1]_vars

\* C21: a HavePiece batch without records leaves the controller running and
\* changes no availablePieces, activeRequests or activeRequestsTotals.
C21_EmptyBatchIsHarmless ==
    [][(lastEvent'.kind = "havePiece" /\ lastEvent'.records = <<>>) =>
          (Running' /\ UNCHANGED <<peers, activeRequestsTotals>>)]_vars

\* The event just processed names a peer the peers map did not hold.
NamesUnknownPeer(ev, ps) ==
    \/ /\ ev.kind \in {"receivedPiece", "deadPeer", "chokeStatus"}
       /\ ev.peerName \notin DOMAIN ps
    \/ /\ ev.kind = "havePiece"
       /\ \E k \in DOMAIN ev.records : ev.records[k].peerName \notin DOMAIN ps

Crashed == status \in {"fatal", "panic"}

\* C22: a ReceivedPiece, DeadPeer or ChokeStatus event or a HavePiece record
\* that names a peer absent from the peers map ends the controller, by
\* log.Fatalf or by a panic.
C22_UnknownPeerCrashes ==
    [][NamesUnknownPeer(lastEvent', peers) => Crashed']_vars

\* A ReceivedPiece for a peer that is no longer in the map has ended the
\* controller; the total of the piece still counts a request of a peer that
\* DeadPeer removed.
C22_Witness ==
    /\ Crashed
    /\ lastEvent.kind = "receivedPiece"
    /\ lastEvent.peerName \notin DOMAIN peers
    /\ Leak(peers, activeRequestsTotals, lastEvent.pieceNum) > 0

\* C23: a ChokeStatus(p, true) for a peer of the map empties p.activeRequests,
\* takes one off the total of each piece p was working on, and changes
\* nothing else: the other totals, the other peers, all availablePieces and
\* finishedPieces stay as they were and no command is created (Scenario 4).
C23_ChokeFlushesOnlyThePeer ==
    [][(/\ lastEvent'.kind = "chokeStatus"
        /\ lastEvent'.isChoked
        /\ lastEvent'.peerName \in DOMAIN peers) =>
          LET p == lastEvent'.peerName
          IN /\ Running'
             /\ DOMAIN peers' = DOMAIN peers
             /\ peers'[p] = [peers[p] EXCEPT !.isChoked = TRUE, !.activeRequests = {}]
             /\ \A q \in DOMAIN peers \ {p} : peers'[q] = peers[q]
             /\ \A i \in Pieces :
                   activeRequestsTotals'[i] =
                       activeRequestsTotals[i]
                         - (IF i \in peers[p].activeRequests THEN 1 ELSE 0)
             /\ finishedPieces' = finishedPieces
             /\ maxSimultaneousDownloadsPerPeer' = maxSimultaneousDownloadsPerPeer
             /\ sent' = NoSent
             /\ senders' = NoSenders]_vars

\* A choke has flushed two requests of a peer while another peer goes on
\* working on a piece.
C23_Witness ==
    /\ Running
    /\ scenario.phase = "flushed"
    /\ Len(scenario.requests) = 2
    /\ peers[lastEvent.peerName].activeRequests = {}
    /\ \E q \in DOMAIN peers : peers[q].activeRequests # {}

\* The pieces p advertises that are neither finished nor requested from p.
Unrequested(p) ==
    {i \in Pieces : /\ peers[p].availablePieces[i]
                    /\ ~finishedPieces[i]
                    /\ i \notin peers[p].activeRequests}

\* C24: while the controller runs, every unchoked peer works on
\* maxSimultaneousDownloadsPerPeer pieces or on every unfinished piece it
\* advertises: none has spare capacity and an unrequested eligible piece.
C24_WorkConservation ==
    Running =>
        \A p \in DOMAIN peers :
            ~peers[p].isChoked =>
                \/ Cardinality(peers[p].activeRequests) = maxSimultaneousDownloadsPerPeer
                \/ Unrequested(p) = {}

\* The re-dispatch after a ReceivedPiece has given the finishing peer, which
\* is unchoked, a new request, and a second unchoked peer is at work too.
C24_Witness ==
    /\ Running
    /\ lastEvent.kind = "receivedPiece"
    /\ \E k \in DOMAIN sent.requests : sent.requests[k].peerName = lastEvent.peerName
    /\ \E q \in DOMAIN peers \ {lastEvent.peerName} :
          ~peers[q].isChoked /\ peers[q].activeRequests # {}

\* C25: in every state the controller reaches, the total of every piece is at
\* least the number of peers of the map that have the piece in their
\* activeRequests, and so never negative.
C25_TotalsNeverUnderCount ==
    \A i \in Pieces :
        /\ activeRequestsTotals[i] >= Cardinality(Holders(peers, i))
        /\ activeRequestsTotals[i] >= 0

\* After a choke flushed a peer, a total still counts a request of a dead
\* peer on top of the request of a peer at work.
C25_Witness ==
    /\ Running
    /\ lastEvent.kind = "chokeStatus"
    /\ lastEvent.isChoked
    /\ \E i \in Pieces :
          /\ Holders(peers, i) # {}
          /\ activeRequestsTotals[i] > Cardinality(Holders(peers, i))

====
